---- MODULE Spec2Model ----
(***************************************************************************)
(* A model of utils::loading_cache, the asynchronous loading cache of      *)
(* Scylla, in the two variants the repository holds:                       *)
(*                                                                         *)
(*   "lru_entry"   src/utils/loading_cache.hh: the timestamped values live *)
(*                 in the loading_shared_values registry and an lru_entry  *)
(*                 anchors each cached one in the LRU list;                *)
(*   "mirror_set"  src/unnamed/part_001: the timestamped values live in a  *)
(*                 separate unordered set (_set) mirroring the registry,   *)
(*                 with the ReloadEnabled template flag, get_ptr, erase    *)
(*                 and remove_if.                                          *)
(*                                                                         *)
(* One step of the model is one run of code between two suspension points  *)
(* of the single-threaded cooperative scheduler (seastar futures).         *)
(*                                                                         *)
(* _current_size is a size_t.  It is kept here as an unbounded integer     *)
(* whose negative values stand for the wrapped values 2^64 + n, and the    *)
(* size_t comparison is SizeGt.  The value only wraps on the stale write   *)
(* of a reload through a dangling reference (variant "mirror_set").        *)
(***************************************************************************)
EXTENDS Integers, Sequences, FiniteSets

\* ------------------------------------------------------------------ bounds
NumKeys == 2
NumCallers == 2
MaxVal == 2
MaxTime == 3
MaxMaxSize == 1

Keys == 1..NumKeys
Callers == 1..NumCallers
\* A value produced by the loader; its size is EntrySize(v).
Values == 1..MaxVal
\* The configurations the constructors are tried with (milliseconds).
NumLruKeys == 4
MaxLruSize == 3
MaxGets == 5
MaxLateTime == 5
MaxSizes == 0..MaxMaxSize
Expiries == {0, 2}
Refreshes == {0, 1}
Variants == {"lru_entry", "mirror_set"}

NotArmed == 0 - 1

\* initial_buckets_count of the registry and of _set, scaled down so that
\* two registered keys overfill it.
InitialBuckets == 2

VARIABLES
    cfg,            \* template and constructor arguments
    phase,          \* "new", "live" (constructed), "failed" (constructor threw)
    crashed,        \* the process aborted (assert) or faulted
    now,            \* loading_cache_clock_type::now()
    timer,          \* _timer: the armed deadline, or NotArmed
    tick_start,     \* timer_start_tp of the tick whose reloads are in flight
    loading_values, \* _loading_values: key -> [st, val]
    ts,             \* the timestamped_val of each key: [loaded, last_read, size]
    set,            \* the lookup index: _set, or the values with an lru anchor
    lru_list,       \* _lru_list, MRU at the front
    current_size,   \* _current_size
    fg,             \* loader invocations of get/get_ptr not yet completed, per key
    callers,        \* the futures of get/get_ptr not yet returned to the caller
    reloads,        \* the reload() calls of the running tick, per key
    stop,           \* stop(): "no", "closing" (gate closing), "done"
    buckets,        \* bucket counts: lv of _loading_values, set of _set (_buckets)
    last            \* the step just taken (history)

vars == <<cfg, phase, crashed, now, timer, tick_start, loading_values, ts, set,
          lru_list, current_size, fg, callers, reloads, stop, buckets, last>>

\* ----------------------------------------------------------------- helpers
NoLv == [st |-> "none", val |-> 0]
NoTs == [loaded |-> 0, last_read |-> 0, size |-> 0]
NoReload == [st |-> "idle", reuse |-> {}, shared |-> FALSE, osize |-> 0]
Idle == [st |-> "idle", key |-> 0, ok |-> TRUE, exp |-> 0, rl |-> FALSE]
Ev(op, k, v, err, inst) ==
    [op |-> op, key |-> k, val |-> v, err |-> err, inst |-> inst, exp |-> 0, rl |-> FALSE]

Range(s) == {s[i] : i \in 1..Len(s)}


RECURSIVE SetSum(_, _)
SetSum(S, f) ==
    IF S = {} THEN 0
    ELSE LET k == CHOOSE x \in S : TRUE IN f[k].size + SetSum(S \ {k}, f)

Without(s, k) == SelectSeq(s, LAMBDA x : x # k)

Min(a, b) == IF a < b THEN a ELSE b
Max(a, b) == IF a > b THEN a ELSE b

\* EntrySize()(val): the size predicate, a template argument.
EntrySize(v) == v

\* size_t comparison a > b of a possibly wrapped _current_size.
SizeGt(a, b) == a < 0 \/ a > b

IsLruEntry == cfg.variant = "lru_entry"
IsMirrorSet == cfg.variant = "mirror_set"

\* Mutant of caching_enabled: a zero expiry does not disable caching.
caching_always == TRUE

caching_enabled == cfg.expiry # 0

\* Mutant of CtorThrows: only a zero max_size with a zero refresh is refused.
CtorThrows_And(c) ==
    /\ c.expiry # 0
    /\ IF c.reload THEN c.refresh = 0 /\ c.max_size = 0 ELSE c.max_size = 0

\* The constructors' sanity check.
CtorThrows(c) ==
    /\ c.expiry # 0
    /\ IF c.reload THEN c.refresh = 0 \/ c.max_size = 0 ELSE c.max_size = 0

\* _timer_period as the constructors set it.
timer_period ==
    IF cfg.reload THEN Min(cfg.expiry, cfg.refresh)
    ELSE Max(cfg.expiry \div 2, 1)

Configs ==
    {c \in [variant : Variants, reload : BOOLEAN, max_size : MaxSizes,
            expiry : Expiries, refresh : Refreshes] :
        /\ c.variant = "lru_entry" => c.reload
        /\ ~c.reload => c.refresh = 0}

Init ==
    /\ cfg \in Configs
    /\ phase = "new"
    /\ crashed = FALSE
    /\ now = 0
    /\ timer = NotArmed
    /\ tick_start = 0
    /\ loading_values = [k \in Keys |-> NoLv]
    /\ ts = [k \in Keys |-> NoTs]
    /\ set = {}
    /\ lru_list = <<>>
    /\ current_size = 0
    /\ fg = [k \in Keys |-> 0]
    /\ callers = [c \in Callers |-> Idle]
    /\ reloads = [k \in Keys |-> NoReload]
    /\ stop = "no"
    /\ buckets = [lv |-> InitialBuckets, set |-> InitialBuckets]
    /\ last = Ev("none", 0, 0, "none", FALSE)

cache == <<loading_values, ts, set, lru_list, current_size, fg, callers, reloads>>

\* loading_cache::loading_cache
Construct ==
    /\ phase = "new"
    /\ IF ~caching_enabled THEN phase' = "live" /\ timer' = timer
       ELSE IF CtorThrows(cfg) THEN phase' = "failed" /\ timer' = timer
       ELSE phase' = "live" /\ timer' = now + timer_period
    /\ last' = Ev("construct", 0, 0, "none", FALSE)
    /\ UNCHANGED <<cfg, crashed, now, tick_start, stop, buckets>>
    /\ UNCHANGED cache

Running == phase = "live" /\ ~crashed

\* lowres_clock advancing.  The reactor runs an expired timer before the
\* clock is read at a later value.
AdvanceTo(limit) ==
    /\ Running
    /\ now < limit
    /\ timer = NotArmed \/ now < timer
    /\ now' = now + 1
    /\ last' = Ev("none", 0, 0, "none", FALSE)
    /\ UNCHANGED <<cfg, phase, crashed, timer, tick_start, stop, buckets>>
    /\ UNCHANGED cache

Advance == AdvanceTo(MaxTime)

\* ------------------------------------------------- shared bookkeeping
\* The bucket counts the registry's rehash can settle on.
BucketCounts == {InitialBuckets, 2 * InitialBuckets}

\* sync_buckets_count on the bucket counts b: _set is rehashed to the
\* registry's count when the counts differ, unless allocating the new bucket
\* array throws (fits is FALSE), which the callers swallow.  Variant
\* "lru_entry" has no index of its own.
SyncBucketsCount(b, fits) ==
    IF IsMirrorSet /\ b.set # b.lv /\ fits THEN [b EXCEPT !.set = b.lv] ELSE b

\* periodic_rehash: the registry rehashes itself, to r buckets, then the
\* counts are synchronised.
PeriodicRehash(r, fits) == SyncBucketsCount([buckets EXCEPT !.lv = r], fits)

\* rehash_before_insert, which get_ptr calls when it stores an entry.
InstallSync ==
    IF IsMirrorSet /\ set' # set
    THEN buckets' = SyncBucketsCount(buckets, TRUE)
    ELSE buckets' = buckets

\* Mutant of Touch: the entry is relinked at the back of the list.
Touch_Back(list, k) == Without(list, k) \o <<k>>

\* lru_entry::touch / timestamped_val::touch: unlink and push_front.
Touch(list, k) == <<k>> \o Without(list, k)

\* Whether an entry_ptr / value_ptr to the registry entry of k is still held:
\* by the cached entry, or by a resolved future whose continuation has not run.
\* (A caller of get_ptr is taken to drop the pointer it was handed before the
\* next step.)
Held(k, nset, ncallers) ==
    \/ k \in nset
    \/ \E c \in Callers : ncallers[c].st = "ready" /\ ncallers[c].ok /\ ncallers[c].key = k

\* loading_shared_values: a resolved entry leaves the registry when the last
\* pointer to it is dropped.
Collect(nlv, nset, ncallers) ==
    [k \in Keys |->
        IF nlv[k].st = "ready" /\ ~Held(k, nset, ncallers) THEN NoLv ELSE nlv[k]]

\* reload() of variant "mirror_set" captures the timestamped_val by reference:
\* when the entry is destroyed while the loader is awaited the reference
\* dangles.  osize is the _size the freed object held, shared whether the
\* value it pointed to is still alive, reuse the entries allocated since
\* (any of which may have been given the freed memory).
Track(r, k, destroyed, installed, nset, clv) ==
    IF r.st = "live" /\ IsMirrorSet /\ k \in destroyed
    THEN [st |-> "dangling", reuse |-> {}, shared |-> clv[k].st = "ready",
          osize |-> ts[k].size]
    ELSE IF r.st = "dangling"
    THEN [r EXCEPT !.reuse = (r.reuse \cup installed) \cap nset,
                   !.shared = r.shared /\ clv[k].st = "ready"]
    ELSE r

\* The end of every step: the new values of the containers, with the registry
\* entries nobody holds any more dropped.
Commit(nlv, nts, nset, nlru, nsize, ncallers, nrel) ==
    LET destroyed == set \ nset
        installed == nset \ set
        clv == Collect(nlv, nset, ncallers)
    IN  /\ loading_values' = clv
        /\ ts' = [k \in Keys |->
                    IF \/ IsLruEntry /\ clv[k].st = "ready"
                       \/ IsMirrorSet /\ k \in nset
                    THEN nts[k] ELSE NoTs]
        /\ set' = nset
        /\ lru_list' = nlru
        /\ current_size' = nsize
        /\ callers' = ncallers
        /\ reloads' = [k \in Keys |-> Track(nrel[k], k, destroyed, installed, nset, clv)]

\* ------------------------------------------------------------ get, get_ptr
\* The entry-too-big check of get (variant "lru_entry").
TooBig(sz) == sz > cfg.max_size

\* What a returning get/get_ptr hands to its caller: the value v or the
\* error err; inst tells whether the call stored the entry.  History: w.exp is
\* the value the load the call joined produced, w.rl whether a reload has
\* replaced the value since, joined whether the call had waited for the load
\* (w is then the resolved future of the caller).
Ret(k, v, err, inst, w) ==
    [op |-> "ret", key |-> k, val |-> v, err |-> err, inst |-> inst,
     exp |-> w.exp, rl |-> w.rl, joined |-> "st" \in DOMAIN w]

\* Mutant of Read: value() leaves _last_read alone, as peek() does.
Read_Peek(nts, k) == nts

\* timestamped_val::value() / pointer() on the cached entry of k.
Read(nts, k) == [nts EXCEPT ![k].last_read = now]

\* The continuation of get_or_load in get (variant "lru_entry"), run for the
\* resolved future of caller c: c stops waiting, and the value is stored if it
\* is not cached yet.
GetContinuation(c, k, w) ==
    LET ncallers == [callers EXCEPT ![c] = Idle]
        v == loading_values[k].val
    IN  IF k \notin set
        THEN IF TooBig(ts[k].size)
             THEN /\ Commit(loading_values, ts, set, lru_list, current_size,
                            ncallers, reloads)
                  /\ last' = Ret(k, 0, "entry_is_too_big", FALSE, w)
             ELSE /\ Commit(loading_values, Read(ts, k), set \cup {k}, Touch(lru_list, k),
                            current_size + ts[k].size, ncallers, reloads)
                  /\ last' = Ret(k, v, "none", TRUE, w)
        ELSE /\ Commit(loading_values, Read(ts, k), set, Touch(lru_list, k),
                       current_size, ncallers, reloads)
             /\ last' = Ret(k, v, "none", FALSE, w)

\* The timestamped_val a first store constructs (variant "mirror_set").
NewTs(v) == [loaded |-> now, last_read |-> now, size |-> EntrySize(v)]

\* The continuation of get_or_load in get_ptr (variant "mirror_set"); get then
\* copies the value out of the pointer, get_ptr hands the pointer over.
GetPtrContinuation(c, k, w) ==
    LET ncallers == [callers EXCEPT ![c] = Idle]
        v == loading_values[k].val
    IN  IF k \notin set
        THEN /\ Commit(loading_values, [ts EXCEPT ![k] = NewTs(v)], set \cup {k},
                       Touch(lru_list, k), current_size + EntrySize(v),
                       ncallers, reloads)
             /\ last' = Ret(k, v, "none", TRUE, w)
        ELSE /\ Commit(loading_values, Read(ts, k), set, Touch(lru_list, k),
                       current_size, ncallers, reloads)
             /\ last' = Ret(k, v, "none", FALSE, w)

\* Mutant of Continuation: the entry is stored without the second look-up.
Continuation_NoRecheck(c, k, w) ==
    LET v == loading_values[k].val
    IN  /\ Commit(loading_values, [ts EXCEPT ![k] = NewTs(v)], set \cup {k},
                  <<k>> \o lru_list, current_size + EntrySize(v),
                  [callers EXCEPT ![c] = Idle], reloads)
        /\ last' = Ret(k, v, "none", TRUE, w)

\* The continuation of get_or_load, of get or of get_ptr by the variant.
Continuation(c, k, w) ==
    IF IsLruEntry THEN GetContinuation(c, k, w) ELSE GetPtrContinuation(c, k, w)

\* loading_shared_values::get_or_load called for caller c:
\* join the entry of k, and invoke the loader when k is not registered.
GetOrLoad(c, k) ==
    LET me == [Idle EXCEPT !.st = "wait", !.key = k]
    IN  IF loading_values[k].st = "none"
        THEN /\ Commit([loading_values EXCEPT ![k] = [st |-> "loading", val |-> 0]],
                       ts, set, lru_list, current_size,
                       [callers EXCEPT ![c] = me], reloads)
             /\ fg' = [fg EXCEPT ![k] = @ + 1]
             /\ last' = Ev("get", k, 0, "none", TRUE)
        ELSE IF loading_values[k].st = "loading"
        THEN /\ Commit(loading_values, ts, set, lru_list, current_size,
                       [callers EXCEPT ![c] = me], reloads)
             /\ fg' = fg
             /\ last' = Ev("get", k, 0, "none", FALSE)
        ELSE /\ Continuation(c, k, [exp |-> loading_values[k].val, rl |-> FALSE])
             /\ fg' = fg

\* The foreground load of a cache with caching disabled: the loader's own
\* future is the caller's.
LoadDirect(c, k) ==
    /\ Commit(loading_values, ts, set, lru_list, current_size,
              [callers EXCEPT ![c] = [Idle EXCEPT !.st = "direct", !.key = k]],
              reloads)
    /\ fg' = [fg EXCEPT ![k] = @ + 1]
    /\ last' = Ev("get", k, 0, "none", TRUE)

\* Mutant of GetPtrBody: a cached key is loaded like a missing one.
GetPtrBody_Miss(c, k) ==
    IF k \in set THEN LoadDirect(c, k) ELSE GetOrLoad(c, k)

\* get_ptr(k, load) of variant "mirror_set" with caching enabled.
GetPtrBody(c, k) ==
    IF k \in set
    THEN /\ Commit(loading_values, Read(ts, k), set, Touch(lru_list, k), current_size,
                   callers, reloads)
         /\ fg' = fg
         /\ last' = Ret(k, loading_values[k].val, "none", FALSE,
                        [exp |-> loading_values[k].val, rl |-> FALSE])
    ELSE GetOrLoad(c, k)

Usable == Running /\ stop = "no"

\* Mutant of Get: the loader is called directly, past get_or_load.
Get_Direct(c, k) ==
    /\ Usable
    /\ cfg.reload
    /\ callers[c].st = "idle"
    /\ LoadDirect(c, k)
    /\ UNCHANGED <<cfg, phase, crashed, now, timer, tick_start, stop, buckets>>

\* loading_cache::get
Get(c, k) ==
    /\ Usable
    /\ cfg.reload
    /\ callers[c].st = "idle"
    /\ IF ~caching_enabled THEN LoadDirect(c, k)
       ELSE IF IsLruEntry THEN GetOrLoad(c, k)
       ELSE GetPtrBody(c, k)
    /\ UNCHANGED <<cfg, phase, crashed, now, timer, tick_start, stop>>
    /\ InstallSync

\* loading_cache::get_ptr (variant "mirror_set" only); it asserts
\* caching_enabled().  Without ReloadEnabled the caller passes the loader.
GetPtr(c, k) ==
    /\ Usable
    /\ IsMirrorSet
    /\ callers[c].st = "idle"
    /\ IF ~caching_enabled
       THEN /\ crashed' = TRUE
            /\ last' = Ev("assert", k, 0, "none", FALSE)
            /\ UNCHANGED cache
       ELSE /\ GetPtrBody(c, k)
            /\ crashed' = crashed
    /\ UNCHANGED <<cfg, phase, now, timer, tick_start, stop>>
    /\ InstallSync

\* The outcomes of one loader invocation: a value, or 0 for a failed future.
Outcomes == Values \cup {0}

\* The future of the loader invoked by get_or_load for k resolves: the
\* registry stores the value (the timestamped_val of it, variant "lru_entry")
\* and resolves the future of every caller that joined, or fails them all and
\* forgets k.
LoadDone(k, v) ==
    /\ Running
    /\ caching_enabled
    /\ fg[k] > 0
    /\ loading_values[k].st = "loading"
    /\ LET ncallers == [c \in Callers |->
                          IF callers[c].st = "wait" /\ callers[c].key = k
                          THEN [callers[c] EXCEPT !.st = "ready", !.ok = v # 0, !.exp = v]
                          ELSE callers[c]]
       IN  IF v # 0
           THEN Commit([loading_values EXCEPT ![k] = [st |-> "ready", val |-> v]],
                       IF IsLruEntry THEN [ts EXCEPT ![k] = NewTs(v)] ELSE ts,
                       set, lru_list, current_size, ncallers, reloads)
           ELSE Commit([loading_values EXCEPT ![k] = NoLv],
                       ts, set, lru_list, current_size, ncallers, reloads)
    /\ fg' = [fg EXCEPT ![k] = @ - 1]
    /\ last' = Ev("load_done", k, v, IF v = 0 THEN "load_failed" ELSE "none", FALSE)
    /\ UNCHANGED <<cfg, phase, crashed, now, timer, tick_start, stop, buckets>>

\* Caching disabled: the loader's future, which is the caller's, resolves.
DirectDone(c, v) ==
    /\ Running
    /\ callers[c].st = "direct"
    /\ Commit(loading_values, ts, set, lru_list, current_size,
              [callers EXCEPT ![c] = Idle], reloads)
    /\ fg' = [fg EXCEPT ![callers[c].key] = @ - 1]
    /\ last' = Ret(callers[c].key, v, IF v = 0 THEN "load_failed" ELSE "none", FALSE,
                   [exp |-> v, rl |-> FALSE])
    /\ UNCHANGED <<cfg, phase, crashed, now, timer, tick_start, stop, buckets>>

\* Mutant of Resume: the continuation runs on a failed future as well.
Resume_Continue(c) ==
    /\ Running
    /\ callers[c].st = "ready"
    /\ Continuation(c, callers[c].key, callers[c])
    /\ fg' = fg
    /\ UNCHANGED <<cfg, phase, crashed, now, timer, tick_start, stop>>
    /\ InstallSync

\* The continuation of a resolved get_or_load future runs (a failed future
\* skips it and fails the caller's future).
Resume(c) ==
    /\ Running
    /\ callers[c].st = "ready"
    /\ IF callers[c].ok
       THEN Continuation(c, callers[c].key, callers[c])
       ELSE /\ Commit(loading_values, ts, set, lru_list, current_size,
                      [callers EXCEPT ![c] = Idle], reloads)
            /\ last' = Ret(callers[c].key, 0, "load_failed", FALSE, callers[c])
    /\ fg' = fg
    /\ UNCHANGED <<cfg, phase, crashed, now, timer, tick_start, stop>>
    /\ InstallSync

\* ------------------------------------------------------------- eviction
\* Mutant of Expired: the load age counts without ReloadEnabled too.
Expired_LoadAge(e, t) ==
    \/ cfg.expiry < t - e.last_read
    \/ cfg.expiry < t - e.loaded

\* Mutant of Expired: only the time since the last read counts.
Expired_ReadOnly(e, t) ==
    \/ cfg.expiry < t - e.last_read

\* The predicate of drop_expired on one entry, at time t.
Expired(e, t) ==
    \/ cfg.expiry < t - e.last_read
    \/ cfg.reload /\ cfg.expiry < t - e.loaded

\* Mutant of Destroy: the entry leaves the index but stays linked in the list.
Destroy_NoUnlink(st, D) ==
    [st EXCEPT !.set = st.set \ D,
               !.size = st.size - SetSum(D \cap st.set, ts)]

\* ~timestamped_val / ~lru_entry of the entries of D, the state given as a
\* record [set, lru, size, fault].
Destroy(st, D) ==
    [st EXCEPT !.set = st.set \ D,
               !.lru = SelectSeq(st.lru, LAMBDA x : x \notin D),
               !.size = st.size - SetSum(D \cap st.set, ts)]

\* Mutant of DropExpired: nothing is dropped for its age.
DropExpired_Never(st) == st

\* drop_expired
DropExpired(st) == Destroy(st, {k \in Range(st.lru) : Expired(ts[k], now)})

\* Mutant of Shrink: the most recently used entry goes first.
RECURSIVE Shrink_Head(_)
Shrink_Head(st) ==
    IF ~SizeGt(st.size, cfg.max_size) THEN st
    ELSE IF st.lru = <<>> THEN [st EXCEPT !.fault = TRUE]
    ELSE Shrink_Head(Destroy(st, {Head(st.lru)}))

\* shrink: the least recently used entry goes while the size is over the
\* limit; *_lru_list.rbegin() of an empty list is undefined (fault).
RECURSIVE Shrink(_)
Shrink(st) ==
    IF ~SizeGt(st.size, cfg.max_size) THEN st
    ELSE IF st.lru = <<>> THEN [st EXCEPT !.fault = TRUE]
    ELSE Shrink(Destroy(st, {st.lru[Len(st.lru)]}))

Here == [set |-> set, lru |-> lru_list, size |-> current_size, fault |-> FALSE]

\* on_timer: drop_expired(); shrink().  periodic_rehash(), which follows,
\* moves the bucket counts only (PeriodicRehash).
Sweep == Shrink(DropExpired(Here))

\* The age test of the refresh step, curr being timer_start_tp or now().
NeedsReload(e, curr) == e.loaded + cfg.refresh < curr

\* The time the finally block of the refresh step arms the timer for:
\* now() + _timer_period in variant "lru_entry", timer_start_tp +
\* _timer_period in variant "mirror_set".
Rearm(start) == IF IsLruEntry THEN now + timer_period ELSE start + timer_period

\* Mutant of ArmAfterSweep: the timer is rearmed while reloads are awaited.
ArmAfterSweep_Always(due) ==
    IF ~cfg.reload THEN now + timer_period
    ELSE IF stop # "no" THEN NotArmed
    ELSE Rearm(now)

\* The timer when the synchronous part of a tick ends, due being the keys
\* whose reload was dispatched: on_timer without ReloadEnabled rearms at
\* once; otherwise the finally block of the refresh step rearms, which with
\* nothing to wait for is now, and with_gate on a closed gate throws.
ArmAfterSweep(due) ==
    IF ~cfg.reload THEN now + timer_period
    ELSE IF stop # "no" \/ due # {} THEN NotArmed
    ELSE Rearm(now)

\* History of a tick: the number of entries dropped for their age, the
\* number evicted in all, whether reloads were dispatched, and the number of
\* entries resident when it began that were old enough to be reloaded.
TickEv(aged, dropped, due) ==
    [op |-> "tick", key |-> aged, val |-> dropped, err |-> "none", inst |-> due,
     exp |-> 0, rl |-> FALSE,
     old |-> IF cfg.reload
             THEN Cardinality({k \in set : NeedsReload(ts[k], now)}) ELSE 0]

\* Mutant of OnTimer: the refresh step picks its entries before
\* drop_expired and shrink have run.
OnTimer_RefreshFirst(r, fits) ==
    /\ Running
    /\ timer # NotArmed
    /\ now >= timer
    /\ LET sw == Sweep
           due == IF cfg.reload /\ stop = "no"
                  THEN {k \in set : NeedsReload(ts[k], now)} ELSE {}
       IN  /\ crashed' = sw.fault
           /\ Commit(loading_values, ts, sw.set, sw.lru, sw.size, callers,
                     [k \in Keys |-> IF k \in due
                                     THEN [NoReload EXCEPT !.st = "live"]
                                     ELSE reloads[k]])
           /\ timer' = ArmAfterSweep(due)
           /\ tick_start' = IF due # {} THEN now ELSE tick_start
           /\ last' = TickEv(Cardinality(set \ DropExpired(Here).set),
                             Cardinality(set \ sw.set), due # {})
    /\ fg' = fg
    /\ UNCHANGED <<cfg, phase, now, stop>>
    /\ buckets' = PeriodicRehash(r, fits)

\* The timer fires: on_timer (variant "lru_entry"), on_timer or
\* on_timer_with_reload (variant "mirror_set").  The step ends where the
\* reloads it dispatched wait for the loader; with none the timer is rearmed
\* at once.  with_gate throws when stop() has closed the gate.
\* periodic_rehash leaves the registry with r buckets; fits tells whether the
\* bucket array sync_buckets_count allocates could be had.
OnTimer(r, fits) ==
    /\ Running
    /\ timer # NotArmed
    /\ now >= timer
    /\ LET sw == Sweep
           due == IF cfg.reload /\ stop = "no"
                  THEN {k \in sw.set : NeedsReload(ts[k], now)} ELSE {}
       IN  /\ crashed' = sw.fault
           /\ Commit(loading_values, ts, sw.set, sw.lru, sw.size, callers,
                     [k \in Keys |-> IF k \in due
                                     THEN [NoReload EXCEPT !.st = "live"]
                                     ELSE reloads[k]])
           /\ timer' = ArmAfterSweep(due)
           /\ tick_start' = IF due # {} THEN now ELSE tick_start
           /\ last' = TickEv(Cardinality(set \ DropExpired(Here).set),
                             Cardinality(set \ sw.set), due # {})
    /\ fg' = fg
    /\ UNCHANGED <<cfg, phase, now, stop>>
    /\ buckets' = PeriodicRehash(r, fits)

\* --------------------------------------------------------------- reload
\* Mutant of Assign: the assignment counts as a read of the entry.
Assign_Read(st, k, v) ==
    [st EXCEPT !.lv[k].val = v,
               !.ts[k].loaded = now,
               !.ts[k].last_read = now,
               !.ts[k].size = EntrySize(v),
               !.size = st.size - st.ts[k].size + EntrySize(v)]

\* timestamped_val::operator=(new_val) on the cached entry of k.
Assign(st, k, v) ==
    [st EXCEPT !.lv[k].val = v,
               !.ts[k].loaded = now,
               !.ts[k].size = EntrySize(v),
               !.size = st.size - st.ts[k].size + EntrySize(v)]

Cached == [lv |-> loading_values, ts |-> ts, size |-> current_size, fault |-> FALSE]

\* The ways the continuation of a reload through a dangling reference can
\* come out: "stale" writes the freed object as it was left, "reuse" writes
\* the entry of j that was allocated in the freed memory, "fault" is a crash.
Hows == {"stale", "reuse", "fault"}
DanglingOutcome(k, how, j) ==
    IF how = "reuse" THEN j \in reloads[k].reuse ELSE j = k

\* Mutant of ReloadEffect: a failed reload is assigned like a value.
ReloadEffect_AssignFailure(k, v, how, j) ==
    IF reloads[k].st = "live"
    THEN IF IsLruEntry /\ k \notin set THEN Cached
         ELSE Assign(Cached, k, v)
    ELSE IF how = "fault" THEN [Cached EXCEPT !.fault = TRUE]
    ELSE Assign(Cached, j, v)

\* The continuation of reload: what it does to the cache when the loader's
\* future resolved with v (0: failed).
ReloadEffect(k, v, how, j) ==
    IF reloads[k].st = "live"
    THEN IF IsLruEntry /\ k \notin set THEN Cached
         ELSE IF v # 0 THEN Assign(Cached, k, v)
         ELSE Cached
    ELSE IF how = "fault" THEN [Cached EXCEPT !.fault = TRUE]
    ELSE IF v = 0 THEN Cached
    ELSE IF how = "stale"
    THEN [Cached EXCEPT !.size = current_size - reloads[k].osize + EntrySize(v),
                        !.lv[k].val = IF reloads[k].shared THEN v ELSE @]
    ELSE Assign(Cached, j, v)

\* History: the resolved futures whose value a reload has replaced.
Reloaded(nlv) ==
    [c \in Callers |->
        IF /\ callers[c].st = "ready" /\ callers[c].ok
           /\ nlv[callers[c].key].val # loading_values[callers[c].key].val
        THEN [callers[c] EXCEPT !.rl = TRUE] ELSE callers[c]]

\* Mutant of ReloadDone: every reload that completes rearms the timer.
ReloadDone_RearmsEach(k, v, how, j) ==
    /\ Running
    /\ reloads[k].st # "idle"
    /\ IF reloads[k].st = "live" THEN how = "stale" /\ j = k
       ELSE DanglingOutcome(k, how, j)
    /\ LET r == ReloadEffect(k, v, how, j)
           nrel == [reloads EXCEPT ![k] = NoReload]
       IN  /\ crashed' = r.fault
           /\ Commit(r.lv, r.ts, set, lru_list, r.size, Reloaded(r.lv), nrel)
           /\ timer' = Rearm(tick_start)
           /\ last' = Ev("reload_done", k, v, IF v = 0 THEN "load_failed" ELSE "none",
                         reloads[k].st = "dangling")
    /\ fg' = fg
    /\ UNCHANGED <<cfg, phase, now, tick_start, stop, buckets>>

\* Mutant of ReloadDone: a failed reload ends the other reloads of the tick.
ReloadDone_FailureEndsTick(k, v, how, j) ==
    /\ Running
    /\ reloads[k].st # "idle"
    /\ IF reloads[k].st = "live" THEN how = "stale" /\ j = k
       ELSE DanglingOutcome(k, how, j)
    /\ LET r == ReloadEffect(k, v, how, j)
           nrel == IF v = 0 THEN [x \in Keys |-> NoReload]
                   ELSE [reloads EXCEPT ![k] = NoReload]
       IN  /\ crashed' = r.fault
           /\ Commit(r.lv, r.ts, set, lru_list, r.size, Reloaded(r.lv), nrel)
           /\ timer' = IF \A x \in Keys : nrel[x].st = "idle"
                       THEN Rearm(tick_start) ELSE timer
           /\ last' = Ev("reload_done", k, v, IF v = 0 THEN "load_failed" ELSE "none",
                         reloads[k].st = "dangling")
    /\ fg' = fg
    /\ UNCHANGED <<cfg, phase, now, tick_start, stop, buckets>>

\* The loader's future of reload(k) resolves and the continuation runs; the
\* last reload of the tick rearms the timer.
ReloadDone(k, v, how, j) ==
    /\ Running
    /\ reloads[k].st # "idle"
    /\ IF reloads[k].st = "live" THEN how = "stale" /\ j = k
       ELSE DanglingOutcome(k, how, j)
    /\ LET r == ReloadEffect(k, v, how, j)
           nrel == [reloads EXCEPT ![k] = NoReload]
       IN  /\ crashed' = r.fault
           /\ Commit(r.lv, r.ts, set, lru_list, r.size, Reloaded(r.lv), nrel)
           /\ timer' = IF \A x \in Keys : nrel[x].st = "idle"
                       THEN Rearm(tick_start) ELSE timer
           /\ last' = Ev("reload_done", k, v, IF v = 0 THEN "load_failed" ELSE "none",
                         reloads[k].st = "dangling")
    /\ fg' = fg
    /\ UNCHANGED <<cfg, phase, now, tick_start, stop, buckets>>

\* ------------------------------------------------- erase, remove_if, stop
\* Mutant of Erase: the least recently used entry goes instead of k's.
Erase_Tail(k) ==
    /\ Usable
    /\ IsMirrorSet
    /\ LET st == Destroy(Here, IF k \in set THEN {lru_list[Len(lru_list)]} ELSE {})
       IN  /\ Commit(loading_values, ts, st.set, st.lru, st.size, callers, reloads)
           /\ last' = Ev("erase", k, Cardinality(set \ st.set), "none", FALSE)
    /\ fg' = fg
    /\ UNCHANGED <<cfg, phase, crashed, now, timer, tick_start, stop, buckets>>

\* loading_cache::erase(const Key&)
Erase(k) ==
    /\ Usable
    /\ IsMirrorSet
    /\ LET st == Destroy(Here, {k} \cap set)
       IN  /\ Commit(loading_values, ts, st.set, st.lru, st.size, callers, reloads)
           /\ last' = Ev("erase", k, Cardinality(set \ st.set), "none", FALSE)
    /\ fg' = fg
    /\ UNCHANGED <<cfg, phase, crashed, now, timer, tick_start, stop, buckets>>

\* History of a remove_if step: the predicate S and the number evicted.
RemoveIfEv(S, n) ==
    [op |-> "remove_if", key |-> 0, val |-> n, err |-> "none", inst |-> FALSE,
     exp |-> 0, rl |-> FALSE, pred |-> S]

\* Mutant of RemoveIf: the entries that do not satisfy the predicate go.
RemoveIf_Not(S) ==
    /\ Usable
    /\ IsMirrorSet
    /\ LET st == Destroy(Here, {k \in Range(lru_list) : loading_values[k].val \notin S})
       IN  /\ Commit(loading_values, ts, st.set, st.lru, st.size, callers, reloads)
           /\ last' = RemoveIfEv(S, Cardinality(set \ st.set))
    /\ fg' = fg
    /\ UNCHANGED <<cfg, phase, crashed, now, timer, tick_start, stop, buckets>>

\* loading_cache::remove_if, the predicate being "the value is in S".
RemoveIf(S) ==
    /\ Usable
    /\ IsMirrorSet
    /\ LET st == Destroy(Here, {k \in Range(lru_list) : loading_values[k].val \in S})
       IN  /\ Commit(loading_values, ts, st.set, st.lru, st.size, callers, reloads)
           /\ last' = RemoveIfEv(S, Cardinality(set \ st.set))
    /\ fg' = fg
    /\ UNCHANGED <<cfg, phase, crashed, now, timer, tick_start, stop, buckets>>

InFlight == \E k \in Keys : reloads[k].st # "idle"

\* Mutant of Stop: the future of stop() resolves without the gate.
Stop_NoWait ==
    /\ Usable
    /\ stop' = "done"
    /\ timer' = NotArmed
    /\ last' = Ev("stop", 0, 0, "none", FALSE)
    /\ UNCHANGED <<cfg, phase, crashed, now, tick_start, buckets>>
    /\ UNCHANGED cache

\* loading_cache::stop: the gate closes; with no refresh in flight the
\* closing future is ready and the timer is cancelled at once.
Stop ==
    /\ Usable
    /\ stop' = IF InFlight THEN "closing" ELSE "done"
    /\ timer' = IF InFlight THEN timer ELSE NotArmed
    /\ last' = Ev("stop", 0, 0, "none", FALSE)
    /\ UNCHANGED <<cfg, phase, crashed, now, tick_start, buckets>>
    /\ UNCHANGED cache

\* Mutant of StopDone: the future of stop() resolves with the timer left as
\* the refresh step armed it.
StopDone_NoCancel ==
    /\ Running
    /\ stop = "closing"
    /\ ~InFlight
    /\ stop' = "done"
    /\ timer' = timer
    /\ last' = Ev("stop_done", 0, 0, "none", FALSE)
    /\ UNCHANGED <<cfg, phase, crashed, now, tick_start, buckets>>
    /\ UNCHANGED cache

\* The gate's closing future resolves once the refresh has left the gate:
\* _timer.cancel().
StopDone ==
    /\ Running
    /\ stop = "closing"
    /\ ~InFlight
    /\ stop' = "done"
    /\ timer' = NotArmed
    /\ last' = Ev("stop_done", 0, 0, "none", FALSE)
    /\ UNCHANGED <<cfg, phase, crashed, now, tick_start, buckets>>
    /\ UNCHANGED cache

\* The operations and callbacks of a cache whose registry keeps its bucket
\* count (OnTimer(buckets.lv, TRUE)); SpecRehash lets the count move.
Next ==
    \/ Construct
    \/ Advance
    \/ \E c \in Callers, k \in Keys : Get(c, k)
    \/ \E c \in Callers, k \in Keys : GetPtr(c, k)
    \/ \E k \in Keys, v \in Outcomes : LoadDone(k, v)
    \/ \E c \in Callers, v \in Outcomes : DirectDone(c, v)
    \/ \E c \in Callers : Resume(c)
    \/ OnTimer(buckets.lv, TRUE)
    \/ \E k \in Keys, v \in Outcomes, how \in Hows, j \in Keys : ReloadDone(k, v, how, j)
    \/ \E k \in Keys : Erase(k)
    \/ \E S \in SUBSET Values \ {{}} : RemoveIf(S)

Spec == Init /\ [][Next]_vars

\* The cache with its shutdown.
NextStop ==
    \/ Next
    \/ Stop
    \/ StopDone

SpecStop == Init /\ [][NextStop]_vars

\* ------------------------------------------------ the LRU list on its own
\* Gets whose loads resolve at once, and shrink, on a constructed cache with
\* more keys and room than the full model has; last.hist is the history of
\* the keys got.
LruKeys == 1..NumLruKeys

LruEv(op, k, v, h) ==
    [op |-> op, key |-> k, val |-> v, err |-> "none", inst |-> FALSE,
     exp |-> 0, rl |-> FALSE, hist |-> h]

InitLru ==
    /\ cfg \in [variant : Variants, reload : {TRUE}, max_size : 1..MaxLruSize,
                 expiry : Expiries \ {0}, refresh : Refreshes \ {0}]
    /\ phase = "live"
    /\ crashed = FALSE
    /\ now = 0
    /\ timer = now + timer_period
    /\ tick_start = 0
    /\ loading_values = [k \in LruKeys |-> NoLv]
    /\ ts = [k \in LruKeys |-> NoTs]
    /\ set = {}
    /\ lru_list = <<>>
    /\ current_size = 0
    /\ fg = [k \in LruKeys |-> 0]
    /\ callers = [c \in Callers |-> Idle]
    /\ reloads = [k \in LruKeys |-> NoReload]
    /\ stop = "no"
    /\ buckets = [lv |-> InitialBuckets, set |-> InitialBuckets]
    /\ last = LruEv("construct", 0, 0, <<>>)

\* get(k) with the loader resolving with v before anything else runs: a hit
\* reads the entry, a miss stores it (or is refused as too big).
LruGet(k, v) ==
    /\ Len(last.hist) < MaxGets
    /\ IF k \in set
       THEN /\ ts' = Read(ts, k)
            /\ lru_list' = Touch(lru_list, k)
            /\ UNCHANGED <<set, current_size, loading_values>>
       ELSE IF IsLruEntry /\ TooBig(EntrySize(v))
       THEN UNCHANGED <<ts, lru_list, set, current_size, loading_values>>
       ELSE /\ ts' = [ts EXCEPT ![k] = NewTs(v)]
            /\ lru_list' = Touch(lru_list, k)
            /\ set' = set \cup {k}
            /\ current_size' = current_size + EntrySize(v)
            /\ loading_values' = [loading_values EXCEPT ![k] = [st |-> "ready", val |-> v]]
    /\ last' = LruEv("get", k, v, Append(last.hist, k))
    /\ UNCHANGED <<cfg, phase, crashed, now, timer, tick_start, fg, callers, reloads, stop, buckets>>

\* shrink() as a tick calls it.
LruShrink ==
    /\ LET st == Shrink(Here)
       IN  /\ set' = st.set
           /\ lru_list' = st.lru
           /\ current_size' = st.size
           /\ crashed' = st.fault
           /\ ts' = [k \in LruKeys |-> IF k \in st.set THEN ts[k] ELSE NoTs]
           /\ loading_values' = [k \in LruKeys |->
                                    IF k \in st.set THEN loading_values[k] ELSE NoLv]
           /\ last' = LruEv("shrink", 0, Cardinality(set \ st.set), last.hist)
    /\ UNCHANGED <<cfg, phase, now, timer, tick_start, fg, callers, reloads, stop, buckets>>

NextLru ==
    \/ \E k \in LruKeys, v \in Values : LruGet(k, v)
    \/ LruShrink

SpecLru == InitLru /\ [][NextLru]_vars

\* ------------------------------------------- one key over a longer time
\* One caller and one key of a cache in reload mode, the clock running
\* further than in Spec, so that a refresh can outlast an expiry period.
LateAdvance == AdvanceTo(MaxLateTime)

InitLate == Init /\ cfg.reload /\ cfg.expiry # 0

NextLate ==
    \/ Construct
    \/ LateAdvance
    \/ Get(1, 1)
    \/ \E v \in Outcomes : LoadDone(1, v)
    \/ Resume(1)
    \/ OnTimer(buckets.lv, TRUE)
    \/ \E v \in Outcomes : ReloadDone(1, v, "stale", 1)

SpecLate == InitLate /\ [][NextLate]_vars

\* ------------------------------------- a refresh period above the expiry
\* Caches in reload mode whose refresh period is longer than their expiry
\* period, with the clock of SpecLate.
MaxRefresh == 3

DeadConfigs ==
    {c \in [variant : Variants, reload : {TRUE}, max_size : MaxSizes \ {0},
            expiry : 1..(MaxRefresh - 1), refresh : 2..MaxRefresh] :
        c.refresh > c.expiry}

\* The state after the member initialisers, for a configuration out of C.
InitWith(C) ==
    /\ cfg \in C
    /\ phase = "new"
    /\ crashed = FALSE
    /\ now = 0
    /\ timer = NotArmed
    /\ tick_start = 0
    /\ loading_values = [k \in Keys |-> NoLv]
    /\ ts = [k \in Keys |-> NoTs]
    /\ set = {}
    /\ lru_list = <<>>
    /\ current_size = 0
    /\ fg = [k \in Keys |-> 0]
    /\ callers = [c \in Callers |-> Idle]
    /\ reloads = [k \in Keys |-> NoReload]
    /\ stop = "no"
    /\ buckets = [lv |-> InitialBuckets, set |-> InitialBuckets]
    /\ last = Ev("none", 0, 0, "none", FALSE)

InitDead == InitWith(DeadConfigs)

NextDead ==
    \/ Construct
    \/ LateAdvance
    \/ \E c \in Callers, k \in Keys : Get(c, k)
    \/ \E k \in Keys, v \in Outcomes : LoadDone(k, v)
    \/ \E c \in Callers : Resume(c)
    \/ OnTimer(buckets.lv, TRUE)

SpecDead == InitDead /\ [][NextDead]_vars

\* ---------------------------------------------- room for two entries
\* Caches in reload mode that hold two entries at once, so that one tick
\* reloads several keys.
PairSize == 2

PairConfigs ==
    [variant : Variants, reload : {TRUE}, max_size : {PairSize},
     expiry : Expiries \ {0}, refresh : Refreshes \ {0}]

InitPair == InitWith(PairConfigs)

NextPair ==
    \/ Construct
    \/ Advance
    \/ \E c \in Callers, k \in Keys : Get(c, k)
    \/ \E k \in Keys, v \in Outcomes : LoadDone(k, v)
    \/ \E c \in Callers : Resume(c)
    \/ OnTimer(buckets.lv, TRUE)
    \/ \E k \in Keys, v \in Outcomes, how \in Hows, j \in Keys : ReloadDone(k, v, how, j)

SpecPair == InitPair /\ [][NextPair]_vars

\* The same caches with erase, which can remove an entry under its reload.
NextPairErase ==
    \/ NextPair
    \/ \E k \in Keys : Erase(k)

SpecPairErase == InitPair /\ [][NextPairErase]_vars

\* ------------------------------------------------- bucket counts moving
\* The caches of Spec with a registry whose rehash changes its bucket count
\* and with allocations of bucket arrays that can fail.
NextRehash ==
    \/ Construct
    \/ Advance
    \/ \E c \in Callers, k \in Keys : Get(c, k)
    \/ \E c \in Callers, k \in Keys : GetPtr(c, k)
    \/ \E k \in Keys, v \in Outcomes : LoadDone(k, v)
    \/ \E c \in Callers, v \in Outcomes : DirectDone(c, v)
    \/ \E c \in Callers : Resume(c)
    \/ \E r \in BucketCounts, fits \in BOOLEAN : OnTimer(r, fits)

SpecRehash == Init /\ [][NextRehash]_vars

\* ------------------------------------------------------------------ claims
Waiting(k) == {c \in Callers : callers[c].st = "wait" /\ callers[c].key = k}
Resolved(k) == {c \in Callers : callers[c].st = "ready" /\ callers[c].key = k}
Reloading(k) == IF reloads[k].st # "idle" THEN 1 ELSE 0

\* C1 as stated: while gets for k wait on a load the loader runs once for
\* k, and every such get returns the value that invocation produced.
C1_Original ==
    /\ \A k \in Keys : fg[k] <= 1
    /\ last.op = "ret" /\ last.err # "load_failed" =>
            last.err = "none" /\ last.val = last.exp

\* C1 as amended: with caching enabled all the gets for k that wait on a
\* load share one loader invocation; a get
\* that returns a value returns that one unless a reload has replaced it
\* before the continuation ran, and get fails with entry_is_too_big only in
\* the variant with that check and only for a value bigger than max_size
\* (the loaded one, or the one a reload has put in its place).
C1_SingleFlight ==
    cfg.expiry # 0 =>
        /\ \A k \in Keys :
            /\ fg[k] <= 1
            /\ Waiting(k) # {} => fg[k] = 1 /\ loading_values[k].st = "loading"
        /\ last.op = "ret" /\ last.err = "none" => last.val = last.exp \/ last.rl
        /\ last.op = "ret" /\ last.err = "entry_is_too_big" =>
                IsLruEntry /\ (EntrySize(last.exp) > cfg.max_size \/ last.rl)

\* C1 witness: one of several gets joined on one load of k has returned the
\* value the load produced, another is still to resume.
C1_Witness ==
    /\ cfg.expiry # 0
    /\ last.op = "ret" /\ last.err = "none" /\ last.inst /\ last.val = last.exp
    /\ Resolved(last.key) # {}

\* C2 as stated: per key at most one loader invocation is outstanding,
\* foreground loads and background reloads counted together.
C2_Original == \A k \in Keys : fg[k] + Reloading(k) <= 1

\* C2 as amended: with caching enabled at most one foreground load and at
\* most one reload of a key are outstanding (no tick is armed while reloads
\* are awaited), and both at once only for a reload whose entry erase or
\* remove_if destroyed in the variant with the mirror set.
C2_OnePerPath ==
    cfg.expiry # 0 =>
        \A k \in Keys :
            /\ fg[k] <= 1
            /\ reloads[k].st # "idle" => timer = NotArmed /\ cfg.reload
            /\ fg[k] + Reloading(k) > 1 => IsMirrorSet /\ reloads[k].st = "dangling"

\* C2 witness: a foreground load of k and a reload of k are both outstanding.
C2_Witness == \E k \in Keys : fg[k] = 1 /\ reloads[k].st # "idle" /\ cfg.expiry # 0

\* C3 as stated: at every quiescence point current_size is the sum of the
\* sizes of the resident entries.
C3_SizeIsSum == current_size = SetSum(set, ts)

\* C4: at every quiescence point the keys of the lookup index are the keys
\* linked in the LRU list, each linked once.
C4_IndexIsLru == set = Range(lru_list) /\ Len(lru_list) = Cardinality(set)

\* C4 witness: an eviction (erase, remove_if or a timer tick) has removed an
\* entry and left another one resident.
C4_Witness ==
    /\ last.op \in {"erase", "remove_if", "tick"}
    /\ last.val > 0
    /\ set # {}

\* C5 as stated: when a get that installs a new entry returns, current_size
\* is at most max_size (the get itself evicts what is over the budget).
C5_BudgetAtReturn ==
    last.op = "ret" /\ last.inst => ~SizeGt(current_size, cfg.max_size)

\* C6 as stated: a get miss whose loader produced a value bigger than
\* max_size fails with entry_is_too_big, installs nothing and leaves the
\* resident set, the LRU order and current_size as they were.
C6_TooBigRefused ==
    [][(/\ last'.op = "ret" /\ last'.err # "load_failed" /\ ~last'.rl
        /\ cfg.expiry # 0
        /\ last'.key \notin set
        /\ EntrySize(last'.exp) > cfg.max_size)
       => /\ last'.err = "entry_is_too_big"
          /\ UNCHANGED <<set, lru_list, current_size>>]_vars

\* C7: a cache constructed with expiry = 0 invokes the loader once for every
\* get in flight (also for one key), registers and keeps nothing, has
\* current_size 0 and never arms the timer.
C7_DisabledCache ==
    cfg.expiry = 0 /\ phase = "live" =>
        /\ set = {} /\ lru_list = <<>> /\ current_size = 0
        /\ timer = NotArmed
        /\ \A k \in Keys :
            /\ loading_values[k].st = "none"
            /\ fg[k] = Cardinality({c \in Callers :
                            callers[c].st # "idle" /\ callers[c].key = k})
        /\ \A c \in Callers : callers[c].st \in {"idle", "direct"}
        /\ last.op = "ret" => ~last.inst /\ last.val = last.exp

\* C7 witness: with expiry = 0, two gets of one key have two loader
\* invocations outstanding.
C7_Witness == cfg.expiry = 0 /\ \E k \in Keys : fg[k] = NumCallers

\* C8: construction fails exactly when expiry # 0 and max_size = 0 or, in
\* reload mode, refresh = 0; with expiry = 0 it succeeds for every max_size
\* and refresh; a failed construction arms no timer.
C8_CtorValidity ==
    phase # "new" =>
        /\ phase = "failed" <=>
                /\ cfg.expiry # 0
                /\ cfg.max_size = 0 \/ (cfg.reload /\ cfg.refresh = 0)
        /\ phase = "failed" => timer = NotArmed

\* C8 witness: construction in reload mode has failed for refresh = 0 alone.
C8_Witness ==
    phase = "failed" /\ cfg.reload /\ cfg.refresh = 0 /\ cfg.max_size # 0

\* C9: a failed foreground load fails every get joined on it, makes no
\* entry resident, leaves current_size alone and is not remembered: the
\* key is forgotten, and the next get of it invokes the loader again.
C9_FailureNotCached ==
    [][/\ last'.op = "load_done" /\ last'.err = "load_failed" =>
            /\ \A c \in Callers :
                    callers[c].st = "wait" /\ callers[c].key = last'.key =>
                        callers'[c].st = "ready" /\ ~callers'[c].ok
            /\ loading_values'[last'.key].st = "none"
            /\ fg'[last'.key] = 0
            /\ UNCHANGED <<set, lru_list, current_size, ts>>
       /\ \A c \in Callers :
            callers[c].st = "ready" /\ ~callers[c].ok /\ callers'[c].st = "idle" =>
                /\ last'.op = "ret" /\ last'.err = "load_failed"
                /\ last'.key = callers[c].key
                /\ UNCHANGED <<set, lru_list, current_size, ts, loading_values>>
       /\ \A c \in Callers, k \in Keys :
            /\ callers[c].st = "idle" /\ callers'[c].st = "wait"
            /\ callers'[c].key = k /\ loading_values[k].st = "none"
            => fg'[k] = fg[k] + 1]_vars

\* C9 witness: one of two gets joined on a failed load has returned the
\* failure, the other still holds its failed future.
C9_Witness ==
    /\ cfg.expiry # 0
    /\ last.op = "ret" /\ last.err = "load_failed"
    /\ \E c \in Callers :
        callers[c].st = "ready" /\ ~callers[c].ok /\ callers[c].key = last.key

\* C10: a failed background reload of a key that stayed resident leaves
\* the entry (value, loaded, last_read, size, LRU position) as it was and
\* reaches no caller of get.
C10_ReloadFailureIgnored ==
    [][(/\ last'.op = "reload_done" /\ last'.err = "load_failed"
        /\ reloads[last'.key].st = "live"
        /\ last'.key \in set)
       => UNCHANGED <<set, lru_list, current_size, ts, loading_values,
                      callers, fg, crashed>>]_vars

\* C10 witness: the reload of a resident key has failed.
C10_Witness ==
    /\ last.op = "reload_done" /\ last.err = "load_failed" /\ ~last.inst
    /\ last.key \in set

\* C11: the future of stop() is not resolved while a reload of the tick
\* that was refreshing when stop() was called is still outstanding.
C11_StopWaitsForRefresh ==
    stop = "done" => \A k \in Keys : reloads[k].st = "idle"

\* C11 witness: stop() was called during a refresh and its future has
\* resolved, after the last reload of the tick completed.
C11_Witness ==
    /\ last.op = "stop_done"
    /\ stop = "done"
    /\ tick_start > 0

\* A step of get / get_ptr called for key k (not the later continuation of
\* one that had to wait).
GetCall(k) ==
    /\ last'.key = k
    /\ \/ last'.op = "get"
       \/ last'.op = "ret" /\ callers' = callers

\* C12: get(k) for a resident key returns the entry's value at once: no
\* loader is invoked, the call does not wait, also with a reload of k in
\* flight; and the value of an entry that stays resident changes only when
\* a reload completes, so two gets with none in between return the same.
C12_HitReturnsAtOnce ==
    [][/\ \A k \in Keys :
            GetCall(k) /\ k \in set /\ cfg.expiry # 0 =>
                /\ last'.op = "ret" /\ last'.err = "none" /\ ~last'.inst
                /\ last'.val = loading_values[k].val
                /\ UNCHANGED <<fg, reloads, loading_values, set, current_size>>
       /\ \A k \in set \cap set' :
            loading_values'[k].val # loading_values[k].val =>
                last'.op = "reload_done"]_vars

\* C12 witness: a get of a resident key has returned, with no caller
\* waiting, while a reload of the key is in flight.
C12_Witness ==
    /\ last.op = "ret" /\ last.err = "none" /\ ~last.inst
    /\ last.key \in set
    /\ reloads[last.key].st = "live"
    /\ \A c \in Callers : callers[c].st = "idle"
    /\ ts[last.key].last_read = now /\ ts[last.key].loaded < now

\* The resident entries a tick starting now has to drop for their age.
TooOld ==
    {k \in set : \/ now - ts[k].last_read > cfg.expiry
                 \/ cfg.reload /\ now - ts[k].loaded > cfg.expiry}

\* C13: a tick evicts every resident entry with now - last_read > expiry
\* or, in reload mode only, now - loaded > expiry; when what is left fits
\* max_size (shrink has nothing to do) it evicts exactly those; without
\* reload mode no entry goes for its load age alone.
C13_DropExpiredExact ==
    [][last'.op = "tick" =>
        /\ TooOld \cap set' = {}
        /\ set' \subseteq set
        /\ ~SizeGt(current_size - SetSum(TooOld, ts), cfg.max_size) =>
                set' = set \ TooOld
        /\ last'.key = Cardinality(TooOld)
        /\ last'.val = Cardinality(set \ set')]_vars

\* C13 witness: a tick without reload mode has kept an entry that was
\* loaded more than expiry ago, because it was read since.
C13_Witness ==
    /\ last.op = "tick" /\ last.key = 0
    /\ ~cfg.reload
    /\ \E k \in set : now - ts[k].loaded > cfg.expiry

\* C14: shrink takes entries off the tail of the LRU list only (what stays
\* is a front part of the list, so no entry goes while one behind it stays),
\* leaves current_size <= max_size and stops at the first entry after whose
\* eviction that holds; with one unit per entry and max_size = 3, after
\* get(1), get(2), get(3), get(1), get(4) it leaves the keys 1, 3, 4.
C14_ShrinkFromTail ==
    [][last'.op = "shrink" =>
        /\ \E n \in 0..Len(lru_list) : lru_list' = SubSeq(lru_list, 1, n)
        /\ set' = Range(lru_list')
        /\ current_size' <= cfg.max_size
        /\ current_size' = SetSum(set', ts)
        /\ Len(lru_list') < Len(lru_list) =>
                current_size' + ts[lru_list[Len(lru_list') + 1]].size > cfg.max_size
        /\ (/\ last.hist = <<1, 2, 3, 1, 4>>
            /\ cfg.max_size = 3
            /\ set = LruKeys
            /\ \A k \in LruKeys : ts[k].size = 1)
           => set' = {1, 3, 4} /\ lru_list' = <<4, 1, 3>>]_vars

\* C14 witness: shrink has run after get(1), get(2), get(3), get(1), get(4)
\* with max_size = 3 and evicted one entry of four.
C14_Witness ==
    /\ last.op = "shrink" /\ last.val = 1
    /\ last.hist = <<1, 2, 3, 1, 4>>
    /\ cfg.max_size = 3
    /\ set = {1, 3, 4}
    /\ current_size = 3

Dispatched == {k \in Keys : reloads[k].st = "idle" /\ reloads'[k].st # "idle"}

\* C16: a tick drops the expired entries, then shrinks, then (reload mode)
\* dispatches the reloads, of entries that are still resident only; shrink
\* takes an entry only when what drop_expired left is over max_size; the
\* timer is not armed while reloads are awaited and is armed again by the
\* completion of the last of them.
C16_TickOrder ==
    [][/\ Dispatched # {} => last'.op = "tick" /\ cfg.reload
       /\ last'.op = "tick" =>
            /\ Dispatched \subseteq set' \ TooOld
            /\ \A k \in Dispatched : reloads'[k].st = "live"
            /\ (set \ set') \ TooOld # {} =>
                    SizeGt(current_size - SetSum(TooOld, ts), cfg.max_size)
            /\ Dispatched # {} => timer' = NotArmed
            /\ Dispatched = {} /\ ~crashed' => timer' # NotArmed
       /\ InFlight' => timer' = NotArmed
       /\ timer = NotArmed /\ timer' # NotArmed /\ phase = "live" =>
            last'.op = "reload_done" /\ ~InFlight']_vars

\* C16 witness: one tick has evicted an entry and dispatched the reload of
\* another, and the timer is left unarmed.
C16_Witness ==
    /\ last.op = "tick" /\ last.val > 0 /\ last.inst
    /\ \E k \in set : reloads[k].st = "live"
    /\ timer = NotArmed

\* C17 as stated: the timer is rearmed at the end of a tick for the time
\* the tick started plus timer_period, however long the reloads took.
C17_RearmFromStart ==
    [][/\ last'.op = "tick" /\ timer' # NotArmed =>
            timer' = now + timer_period
       /\ last'.op = "reload_done" /\ timer = NotArmed /\ timer' # NotArmed =>
            timer' = tick_start + timer_period]_vars

\* C18: a successful reload of a key whose entry stayed resident assigns
\* the new value to that entry: loaded becomes the time of completion,
\* size the new size, current_size moves by the difference; last_read, the
\* LRU list, the index and every other entry stay as they were.
C18_ReloadInPlace ==
    [][(/\ last'.op = "reload_done" /\ last'.err = "none"
        /\ reloads[last'.key].st = "live"
        /\ last'.key \in set)
       => /\ loading_values'[last'.key].val = last'.val
          /\ ts'[last'.key] = [loaded |-> now, last_read |-> ts[last'.key].last_read,
                               size |-> EntrySize(last'.val)]
          /\ current_size' = current_size - ts[last'.key].size + EntrySize(last'.val)
          /\ UNCHANGED <<set, lru_list, fg>>
          /\ \A j \in Keys \ {last'.key} :
                ts'[j] = ts[j] /\ loading_values'[j] = loading_values[j]]_vars

\* C18 witness: the reload of a resident entry has completed with a value
\* of another size, later than the entry was last read.
C18_Witness ==
    /\ last.op = "reload_done" /\ last.err = "none" /\ ~last.inst
    /\ last.key \in set
    /\ loading_values[last.key].val = last.val
    /\ ts[last.key].loaded = now /\ ts[last.key].last_read < now
    /\ current_size = EntrySize(last.val) /\ current_size > cfg.max_size

\* C19 as stated: when the entry of k was removed while its reload awaited
\* the loader, the completion of the reload finds k gone and drops the
\* result: the removed entry is neither read nor written, nothing is
\* installed and current_size does not change.
C19_RemovedReloadDiscarded ==
    [][(/\ last'.op = "reload_done"
        /\ last'.key \notin set \/ reloads[last'.key].st = "dangling")
       => UNCHANGED <<set, lru_list, current_size, ts, loading_values, crashed>>]_vars

\* C20: a get that returns the value of an entry has, in that one step, set
\* the entry's last_read to now and moved it to the front of the LRU list,
\* the other entries keeping their order; last_read of an entry that stays
\* resident changes in no other step, and remove_if, which looks at the
\* values with peek(), changes neither last_read nor the order of what it
\* keeps.
C20_ReadTouches ==
    [][/\ last'.op = "ret" /\ last'.err = "none" /\ last'.key \in set' =>
            /\ ts'[last'.key].last_read = now
            /\ Head(lru_list') = last'.key
            /\ Without(lru_list', last'.key) = Without(lru_list, last'.key)
       /\ \A k \in set \cap set' :
            ts'[k].last_read # ts[k].last_read => last'.op = "ret" /\ last'.key = k
       /\ last'.op = "remove_if" =>
            /\ \A k \in set' : ts'[k] = ts[k]
            /\ lru_list' = SelectSeq(lru_list, LAMBDA x : x \in set')]_vars

\* C20 witness: a get has returned the value of an entry that was stored
\* earlier, with another entry behind it in the LRU list.
C20_Witness ==
    /\ last.op = "ret" /\ last.err = "none" /\ ~last.inst
    /\ Len(lru_list) = 2
    /\ lru_list[1] = last.key
    /\ ts[last.key].last_read = now
    /\ ts[last.key].loaded < ts[lru_list[2]].loaded

\* C21: erase(k) of a resident key takes k out of the index and of the LRU
\* list, lowers current_size by the size of the entry and returns 1;
\* erase(k) of a key that is not resident returns 0 and changes nothing;
\* the other entries and their order in the list stay as they were.
C21_EraseOne ==
    [][last'.op = "erase" =>
        IF last'.key \in set
        THEN /\ last'.val = 1
             /\ set' = set \ {last'.key}
             /\ lru_list' = Without(lru_list, last'.key)
             /\ current_size' = current_size - ts[last'.key].size
             /\ \A j \in set' : ts'[j] = ts[j] /\ loading_values'[j] = loading_values[j]
        ELSE /\ last'.val = 0
             /\ UNCHANGED <<set, lru_list, current_size, ts, loading_values>>]_vars

\* C21 witness: erase has removed one entry and returned 1, and another
\* entry, read at an earlier time, is still resident with its size counted.
C21_Witness ==
    /\ last.op = "erase" /\ last.val = 1
    /\ last.key \notin set
    /\ Len(lru_list) = 1
    /\ ts[lru_list[1]].last_read < now
    /\ current_size = ts[lru_list[1]].size

\* C22: remove_if(pred) evicts the resident entries whose value satisfies
\* pred and no other, from the index and from the LRU list; the entries it
\* keeps have the last_read, the value and the relative order they had.
C22_RemoveIfExact ==
    [][last'.op = "remove_if" =>
        /\ set' = {k \in set : loading_values[k].val \notin last'.pred}
        /\ lru_list' = SelectSeq(lru_list, LAMBDA x : x \in set')
        /\ current_size' = current_size - SetSum(set \ set', ts)
        /\ last'.val = Cardinality(set \ set')
        /\ \A k \in set' : ts'[k] = ts[k] /\ loading_values'[k] = loading_values[k]]_vars

\* C22 witness: remove_if has evicted one of two resident entries and kept
\* the one whose value does not satisfy the predicate.
C22_Witness ==
    /\ last.op = "remove_if" /\ last.val = 1
    /\ Len(lru_list) = 1
    /\ loading_values[lru_list[1]].val \notin last.pred
    /\ ts[lru_list[1]].last_read < now

\* C23: in reload mode with refresh > expiry a tick dispatches no reload:
\* every entry old enough to be reloaded when the tick begins is evicted by
\* the tick's drop_expired, and no reload is ever in flight.
C23_RefreshIsDead ==
    [][last'.op = "tick" /\ cfg.reload /\ cfg.refresh > cfg.expiry =>
        /\ \A k \in set : NeedsReload(ts[k], now) => k \notin DropExpired(Here).set
        /\ \A k \in set : NeedsReload(ts[k], now) => k \notin set'
        /\ Dispatched = {}
        /\ ~last'.inst
        /\ \A k \in Keys : reloads'[k].st = "idle"]_vars

\* C23 witness: with refresh > expiry a tick found an entry old enough to
\* be reloaded, dropped it for its age and rearmed the timer at once.
C23_Witness ==
    /\ cfg.reload /\ cfg.refresh > cfg.expiry
    /\ last.op = "tick" /\ last.old >= 1 /\ last.key >= last.old
    /\ ~last.inst
    /\ timer # NotArmed
    /\ \A k \in Keys : reloads[k].st = "idle"
\* C24: when a tick reloads several keys, the completion of one reload,
\* failed or not, leaves the reloads of the other keys in flight; a reload
\* that succeeds for an entry still in the cache is applied to it whatever
\* happened to the others; and the timer is rearmed by the completion of
\* the last reload of the tick and by no earlier one.
C24_FailureIsPerKey ==
    [][last'.op = "reload_done" =>
        /\ \A x \in Keys \ {last'.key} : reloads'[x] = reloads[x]
        /\ reloads'[last'.key].st = "idle"
        /\ (last'.err = "none" /\ ~last'.inst /\ last'.key \in set) =>
                /\ loading_values'[last'.key].val = last'.val
                /\ ts'[last'.key].loaded = now
        /\ timer = NotArmed
        /\ ~crashed' =>
                (timer' # NotArmed <=> \A x \in Keys : reloads'[x].st = "idle")]_vars

\* C24 witness: the last reload of a tick has succeeded and been applied and
\* the timer is armed again, while another entry that was due in the same
\* tick still has its old load time: its reload failed.
C24_Witness ==
    /\ last.op = "reload_done" /\ last.err = "none" /\ ~last.inst
    /\ last.key \in set
    /\ loading_values[last.key].val = last.val
    /\ ts[last.key].loaded = now
    /\ timer # NotArmed
    /\ \A x \in Keys : reloads[x].st = "idle"
    /\ \E x \in set \ {last.key} : NeedsReload(ts[x], tick_start)

\* C25: the LRU list is ordered by recency of read: an entry nearer the
\* front has a last_read at least as late as any entry behind it.
C25_ListOrderedByRead ==
    \A i, j \in 1..Len(lru_list) :
        i < j => ts[lru_list[i]].last_read >= ts[lru_list[j]].last_read

\* C25 witness: a hit has moved the entry that was loaded first in front of
\* the entry that was loaded after it.
C25_Witness ==
    /\ last.op = "ret" /\ last.err = "none" /\ ~last.inst
    /\ Len(lru_list) = 2
    /\ lru_list[1] = last.key
    /\ ts[lru_list[1]].loaded < ts[lru_list[2]].loaded
    /\ ts[lru_list[1]].last_read > ts[lru_list[2]].last_read

\* C26 as stated: on a cache constructed with expiry = 0 every call of get
\* and of get_ptr invokes the loader for its key and stores nothing; none
\* fails.
C26_GetPtrLikeGet ==
    [][(/\ cfg.expiry = 0
        /\ last'.op \in {"get", "assert"}
        /\ <<callers, crashed>>' # <<callers, crashed>>)
       => /\ ~crashed'
          /\ fg'[last'.key] = fg[last'.key] + 1
          /\ set' = {} /\ lru_list' = <<>> /\ current_size' = 0
          /\ \A k \in Keys : loading_values'[k] = NoLv]_vars
\* C27 as stated: the bucket arrays of the registry and of the index are
\* rehashed by a timer tick only, in the step that sweeps and before the
\* reloads it dispatches complete; no get or get_ptr rehashes either.
C27_RehashOnlyInTick ==
    [][buckets' # buckets => last'.op = "tick" /\ now >= timer]_vars

\* C28 as stated: shrink never finds current_size over max_size with the
\* LRU list empty, evicts no more entries than are resident and leaves
\* current_size <= max_size, whatever reloads did to the sizes before.
C28_ShrinkHasATail ==
    [][last'.op = "tick" =>
        /\ ~crashed'
        /\ ~SizeGt(current_size', cfg.max_size)
        /\ last'.val <= Cardinality(set)]_vars
\* C29: ticks do not overlap: a tick, and with it drop_expired and shrink,
\* starts only when no reload of an earlier tick is outstanding, because the
\* timer is not armed as long as one is; while reloads are in flight they
\* are those of one tick and no entry leaves the cache but by erase or
\* remove_if.
C29_TicksNeverOverlap ==
    [][/\ last'.op = "tick" => \A k \in Keys : reloads[k].st = "idle"
       /\ (\E k \in Keys : reloads'[k].st # "idle") =>
            /\ timer' = NotArmed
            /\ set \subseteq set' \/ last'.op \in {"tick", "erase", "remove_if"}
            /\ last'.op = "tick" \/ tick_start' = tick_start]_vars

\* C29 witness: a tick has run after an earlier tick's reload of an entry,
\* which completed at the time of this tick, and has kept that entry.
C29_Witness ==
    /\ last.op = "tick"
    /\ 0 < tick_start /\ tick_start < now
    /\ \E k \in set : ts[k].loaded = now /\ ts[k].last_read < tick_start
\* C30: a key has at most one resident entry: it is linked once in the LRU
\* list, and a get that returns a value stores an entry exactly when its key
\* has none, adding the entry's size to current_size; a get that finds the
\* entry stored, as the later of several callers joined on one load do,
\* leaves the index and current_size alone and moves the entry to the front.
C30_OneEntryPerKey ==
    [][/\ \A i, j \in 1..Len(lru_list') : lru_list'[i] = lru_list'[j] => i = j
       /\ (last'.op = "ret" /\ last'.err = "none" /\ cfg.expiry # 0) =>
            IF last'.key \in set
            THEN /\ ~last'.inst
                 /\ set' = set
                 /\ current_size' = current_size
                 /\ lru_list' = Touch(lru_list, last'.key)
                 /\ Len(lru_list') = Len(lru_list)
            ELSE /\ last'.inst
                 /\ set' = set \cup {last'.key}
                 /\ current_size' = current_size + ts'[last'.key].size
                 /\ lru_list' = <<last'.key>> \o lru_list]_vars

\* C30 witness: the second of two callers joined on one load has resumed,
\* found the entry the first one stored and returned its value; the entry is
\* resident once and current_size is its size.
C30_Witness ==
    /\ last.op = "ret" /\ last.err = "none" /\ last.joined /\ ~last.inst
    /\ last.val = last.exp
    /\ lru_list = <<last.key>>
    /\ set = {last.key}
    /\ current_size = ts[last.key].size
    /\ \A c \in Callers : callers[c].st = "idle"
\* C31: once the future of stop() has resolved the timer is not armed and
\* no reload is in flight, and from then on the cache stays stopped: no tick
\* runs, no reload is dispatched or completes and the timer is never armed,
\* whether stop() found a refresh in flight or not.
C31_StoppedForGood ==
    [][/\ stop' = "done" =>
            /\ timer' = NotArmed
            /\ \A k \in Keys : reloads'[k].st = "idle"
       /\ stop = "done" =>
            /\ stop' = "done"
            /\ last'.op \notin {"tick", "reload_done"}
            /\ Dispatched = {}
            /\ reloads' = reloads]_vars

\* C31 witness: stop() was called during a refresh that outlasted the timer
\* period; when its future resolved the timer, just rearmed for a time
\* already reached, was cancelled, and an entry due for a reload stays as
\* it is.
C31_Witness ==
    /\ last.op = "stop_done" /\ stop = "done"
    /\ cfg.reload
    /\ 0 < tick_start /\ tick_start + timer_period <= now
    /\ timer = NotArmed
    /\ \E k \in set : NeedsReload(ts[k], now)
====
